---- MODULE Spec2Model ----
(***************************************************************************)
(* The TCP connection engine of ss/core/base.py: BaseTCPHandler (buffers,  *)
(* registration, pairing, DNS callback, peer-socket creation) and the two  *)
(* role mixins LocalMixin / RemoteMixin (SOCKS5 negotiation and request).  *)
(*                                                                         *)
(* Every method of the source is an operator from an engine state `s` (a   *)
(* record holding one function per handler attribute) to the engine state  *)
(* after the call; an action applies one entry point to the current state  *)
(* with the inputs the environment supplies (the outcome of recv, the DNS  *)
(* result, the outcome of connect).  Bytes are naturals 0..255, a chunk is *)
(* a sequence of bytes, a buffer (collections.deque) a sequence of chunks. *)
(***************************************************************************)
EXTENDS Integers, Sequences, FiniteSets, TLC

\* ---------------------------------------------------------------- bounds
\* Handler objects that can exist in one run (the accepted one and peers).
MaxHandlers == 3
\* recv() calls that return data in one run.
MaxReads == 2

\* ------------------------------------------------------- program constants
STAGE_INIT == 0
STAGET_SOCKS5_NEGO == 1
STAGE_SOCKS5_SYN == 2
STAGE_DNS_RESOVED == 3
STAGE_PEER_CONNECTED == 4
STAGE_CLOSED == -1
HDL_POSITIVE == 0
HDL_NEGATIVE == 1
BUF_SIZE == 32 * 1024

\* socks5.CMD_CONNECT / socks5.CMD_UDPFWD (RFC 1928 command codes).
CMD_CONNECT == 1
CMD_UDPFWD == 3
\* SOCKS5 address types understood by socks5.parse_header.
ATYP_IPV4 == 1
ATYP_DOMAIN == 3
ATYP_IPV6 == 4

\* IOLoop.READ | IOLoop.ERROR, the interest mask register() asks for.
READ_ERROR == {"READ", "ERROR"}

Handlers == 1 .. MaxHandlers
\* The value of an unset reference (None).
None == 0
NoAddr == <<>>

\* errno groups of the module head.
ERRNO_WOULDBLOCK == {"EWOULDBLOCK", "EAGAIN"}
ERRNO_INPROGRESS == {"EINPROGRESS"}
ERRNO_CONNRESET == {"ECONNRESET", "ECONNABORTED", "EPIPE", "ETIMEDOUT"}
\* The errnos the read paths of on_recv_nego / on_recv_syn swallow.
RecvRetryErrnos == {"ETIMEDOUT", "EAGAIN", "EWOULDBLOCK"}

VARIABLES
    role,        \* "local" | "remote": the concrete class of every handler
    exclusive_cls, \* the class whose _exclusive_host a local handler binds
    fed,         \* the reads of one request handed to handler 1, in order
    created,     \* the handler objects constructed so far
    status,      \* _status
    sock,        \* _sock: "open" | "closed"
    family,      \* _sock.family: "AF_INET" | "AF_INET6"
    registered,  \* _registered
    events,      \* _events
    mux,         \* io_loop: handler -> interest mask of its registered socket
    read_buf,    \* _read_buf
    rbuf_size,   \* _rbuf_size
    write_buf,   \* _write_buf
    wbuf_size,   \* _wbuf_size
    op_hdl_ref,  \* _op_hdl_ref (None or the paired handler)
    peer_addr,   \* _peer_addr (NoAddr or <<host, port>>)
    direct_conn, \* _direct_conn
    tags,        \* _tags
    addr,        \* _addr
    dns,         \* resolver: per handler, callbacks still owed to _on_dns_resolved
    nreads,      \* recv() calls that returned data so far
    last         \* the entry point that ran last, its handler and its input

hvars == <<created, status, sock, family, registered, events, mux, read_buf,
           rbuf_size, write_buf, wbuf_size, op_hdl_ref, peer_addr,
           direct_conn, tags, addr, dns>>
\* What no method assigns: the class of the handlers.
fixed == <<role, exclusive_cls>>
vars == <<fixed, fed, hvars, nreads, last>>

\* The engine state as one value: what the methods below read and return.
cur ==
    [created |-> created, status |-> status, sock |-> sock, family |-> family,
     registered |-> registered, events |-> events, mux |-> mux,
     read_buf |-> read_buf, rbuf_size |-> rbuf_size,
     write_buf |-> write_buf, wbuf_size |-> wbuf_size,
     op_hdl_ref |-> op_hdl_ref, peer_addr |-> peer_addr,
     direct_conn |-> direct_conn, tags |-> tags, addr |-> addr, dns |-> dns,
     raised |-> FALSE, destroyed |-> {}]

\* The engine state becomes s.
Commit(s) ==
    /\ created' = s.created
    /\ status' = s.status
    /\ sock' = s.sock
    /\ family' = s.family
    /\ registered' = s.registered
    /\ events' = s.events
    /\ mux' = s.mux
    /\ read_buf' = s.read_buf
    /\ rbuf_size' = s.rbuf_size
    /\ write_buf' = s.write_buf
    /\ wbuf_size' = s.wbuf_size
    /\ op_hdl_ref' = s.op_hdl_ref
    /\ peer_addr' = s.peer_addr
    /\ direct_conn' = s.direct_conn
    /\ tags' = s.tags
    /\ addr' = s.addr
    /\ dns' = s.dns

\* ------------------------------------------------------------ byte helpers
RECURSIVE SumLen(_)
\* Total number of bytes held by the chunks of a buffer.
SumLen(buf) == IF buf = <<>> THEN 0 ELSE Len(Head(buf)) + SumLen(Tail(buf))

RECURSIVE Flatten(_)
\* The bytes of a buffer in order, chunk boundaries forgotten.
Flatten(buf) == IF buf = <<>> THEN <<>> ELSE Head(buf) \o Flatten(Tail(buf))

\* data[n:] of Python, n counted from 0.
From(data, n) == SubSeq(data, n + 1, Len(data))

\* struct.pack('>H', port)
PackPort(port) == <<port \div 256, port % 256>>

\* self._codec(data): the transport codec, a byte-wise involution.
codec(data) == [i \in 1 .. Len(data) |-> 255 - data[i]]

RECURSIVE TakePrefix(_, _)
\* The first n bytes of a deque as one chunk, and the deque that is left.
TakePrefix(dq, n) ==
    IF dq = <<>> \/ n <= 0
    THEN [prefix |-> <<>>, rest |-> dq]
    ELSE LET c == Head(dq) IN
         IF Len(c) > n
         THEN [prefix |-> SubSeq(c, 1, n),
               rest |-> <<SubSeq(c, n + 1, Len(c))>> \o Tail(dq)]
         ELSE LET r == TakePrefix(Tail(dq), n - Len(c)) IN
              [prefix |-> c \o r.prefix, rest |-> r.rest]

\* utils.merge_prefix(deque, size): coalesce so that the first chunk holds
\* the first `size` bytes (or all of them when fewer are buffered).
merge_prefix(dq, size) ==
    IF dq = <<>> \/ (Len(dq) = 1 /\ Len(dq[1]) <= size)
    THEN dq
    ELSE LET t == TakePrefix(dq, size) IN <<t.prefix>> \o t.rest

\* socks5.gen_nego(): the negotiation reply and its length.
gen_nego == [data |-> <<5, 0>>, l |-> 2]

\* socks5.gen_ack(): the connect acknowledgment and its length.
gen_ack == [data |-> <<5, 0, 0, 1, 0, 0, 0, 0, 16, 16>>, l |-> 10]

\* What socks5.parse_header returns for "need more data" (a falsy result).
NoHeader ==
    [ok |-> FALSE, addrtype |-> 0, remote_addr |-> <<>>, remote_port |-> 0,
     header_length |-> 0]

\* socks5.parse_header(data): NoHeader or the destination and header length.
parse_header(data) ==
    IF Len(data) < 1 THEN NoHeader
    ELSE IF data[1] = ATYP_IPV4
    THEN IF Len(data) >= 7
         THEN [ok |-> TRUE, addrtype |-> ATYP_IPV4, remote_addr |-> SubSeq(data, 2, 5),
               remote_port |-> data[6] * 256 + data[7], header_length |-> 7]
         ELSE NoHeader
    ELSE IF data[1] = ATYP_DOMAIN
    THEN IF Len(data) >= 2 /\ Len(data) >= 2 + data[2] + 2
         THEN [ok |-> TRUE, addrtype |-> ATYP_DOMAIN,
               remote_addr |-> SubSeq(data, 3, 2 + data[2]),
               remote_port |-> data[3 + data[2]] * 256 + data[4 + data[2]],
               header_length |-> 4 + data[2]]
         ELSE NoHeader
    ELSE IF data[1] = ATYP_IPV6
    THEN IF Len(data) >= 19
         THEN [ok |-> TRUE, addrtype |-> ATYP_IPV6, remote_addr |-> SubSeq(data, 2, 17),
               remote_port |-> data[18] * 256 + data[19], header_length |-> 19]
         ELSE NoHeader
    ELSE NoHeader

\* self._sock.getsockname()[:2] as inet_pton bytes and port.
getsockname(s, h) ==
    IF s.family[h] = "AF_INET6"
    THEN [addr |-> <<0, 0, 0, 0, 0, 0, 0, 0, 0, 0, 0, 0, 0, 0, 0, 1>>,
          port |-> 1080]
    ELSE [addr |-> <<127, 0, 0, 1>>, port |-> 1080]

\* ---------------------------------------------------------- BaseTCPHandler
\* closed (property)
closed(s, h) == s.status[h] = STAGE_CLOSED

\* BaseTCPHandler.__init__ followed by the mixin's __init__, for handler h.
construct(s, h, rl, fam, a, tg) ==
    [s EXCEPT !.created = @ \cup {h},
              !.status[h] = IF rl = "local" THEN STAGE_INIT
                            ELSE STAGET_SOCKS5_NEGO,
              !.sock[h] = "open",
              !.family[h] = fam,
              !.registered[h] = FALSE,
              !.events[h] = {},
              !.read_buf[h] = <<>>,
              !.rbuf_size[h] = 0,
              !.write_buf[h] = <<>>,
              !.wbuf_size[h] = 0,
              !.op_hdl_ref[h] = None,
              !.peer_addr[h] = NoAddr,
              !.direct_conn[h] = FALSE,
              !.tags[h] = tg,
              !.addr[h] = a,
              !.dns[h] = 0]

\* register()
register(s, h) ==
    IF s.registered[h] THEN s
    ELSE IF closed(s, h) THEN [s EXCEPT !.raised = TRUE]
    ELSE [s EXCEPT !.mux[h] = READ_ERROR,
                   !.events[h] = READ_ERROR,
                   !.registered[h] = TRUE]

RECURSIVE destroy(_, _)
\* destroy(): unregister, close the socket, mark CLOSED, then destroy the
\* paired handler unless it is CLOSED already.
destroy(s, h) ==
    LET s1 == [s EXCEPT !.mux[h] = {},
                        !.registered[h] = FALSE,
                        !.sock[h] = "closed",
                        !.status[h] = STAGE_CLOSED,
                        !.destroyed = @ \cup {h}]
        p == s.op_hdl_ref[h]
    IN  IF p # None /\ ~closed(s1, p) THEN destroy(s1, p) ELSE s1

\* on_sock_error()
on_sock_error(s, h) == destroy(s, h)

\* _append_to_rbuf(data, codec)
append_to_rbuf(s, h, data, usecodec) ==
    LET d == IF usecodec THEN codec(data) ELSE data IN
    [s EXCEPT !.read_buf[h] = Append(@, d),
              !.rbuf_size[h] = @ + Len(d)]

\* _pop_from_rbuf with the counter update left out.
pop_from_rbuf_nocount(s, h, bufsize) ==
    LET m == merge_prefix(s.read_buf[h], bufsize) IN
    IF m = <<>> THEN [s EXCEPT !.raised = TRUE]
    ELSE [s EXCEPT !.read_buf[h] = Tail(m)]

\* _pop_from_rbuf(bufsize): the state after the pop; the popped chunk is
\* popped_chunk(s, h, bufsize).  popleft() of an empty deque raises.
pop_from_rbuf(s, h, bufsize) ==
    LET m == merge_prefix(s.read_buf[h], bufsize) IN
    IF m = <<>> THEN [s EXCEPT !.raised = TRUE]
    ELSE [s EXCEPT !.read_buf[h] = Tail(m),
                   !.rbuf_size[h] = @ - Len(Head(m))]

popped_chunk(s, h, bufsize) == Head(merge_prefix(s.read_buf[h], bufsize))

\* relate without the "already related" guard.
relate_overwrite(s, h, other_handler) ==
    [s EXCEPT !.op_hdl_ref[h] = other_handler]

\* relate(other_handler)
relate(s, h, other_handler) ==
    IF s.op_hdl_ref[h] # None THEN s
    ELSE [s EXCEPT !.op_hdl_ref[h] = other_handler]

\* The lowest handler not constructed yet: the object a constructor call makes.
Fresh(s) == CHOOSE p \in Handlers \ s.created :
                \A q \in Handlers \ s.created : p <= q

\* _create_peer_socket(ip, port).  env.gai is the outcome of getaddrinfo and
\* socket creation ("ok" | "fail"), env.conn the outcome of connect ("ok" or
\* the errno it raised).
create_peer_socket(s, h, ip, port, env) ==
    IF env.gai = "fail" THEN [s EXCEPT !.raised = TRUE]
    ELSE IF env.conn # "ok" /\ env.conn \notin ERRNO_INPROGRESS
                            /\ env.conn \notin ERRNO_WOULDBLOCK
    THEN destroy(s, h)
    ELSE LET p == Fresh(s)
             s1 == construct(s, p, role, "AF_INET", <<ip, port>>, HDL_POSITIVE)
             s2 == [s1 EXCEPT !.direct_conn[p] = s1.direct_conn[h]]
             s3 == register(s2, p)
             s4 == relate(s3, h, p)
             s5 == relate(s4, p, h)
         IN  [s5 EXCEPT !.status[h] = STAGE_PEER_CONNECTED,
                        !.status[p] = STAGE_PEER_CONNECTED]

\* _on_dns_resolved(result, error).  res.kind: "error" (error set), "empty"
\* (no error, falsy result), "noip" (result with an empty ip), "ok".
on_dns_resolved(s, h, res, env) ==
    IF res.kind = "error" THEN destroy(s, h)
    ELSE IF res.kind = "empty" THEN s
    ELSE IF res.kind = "noip" THEN destroy(s, h)
    ELSE IF s.peer_addr[h] = NoAddr THEN s
    ELSE LET peer_port == s.peer_addr[h][2]
             s1 == [s EXCEPT !.status[h] = STAGE_DNS_RESOVED]
             s2 == create_peer_socket(s1, h, res.ip, peer_port, env)
         IN  [s2 EXCEPT !.raised = FALSE]

\* ------------------------------------------------------------------ mixins
\* _config["server"], _config["server_port"]
config == [server |-> <<115, 115>>, server_port |-> 8388]

\* BaseMixin._exclusive_host(host)
BaseMixin_exclusive_host(host) == FALSE

\* LocalMixin._exclusive_host(host)
LocalMixin_exclusive_host(host) == TRUE

\* self._exclusive_host(host): the method the handler's class binds, the
\* mixin's or, where the class does not take LocalMixin's, the base one.
exclusive_host(host) ==
    IF exclusive_cls = "LocalMixin" THEN LocalMixin_exclusive_host(host)
    ELSE BaseMixin_exclusive_host(host)

\* LocalMixin._sshost()
sshost == <<config.server, config.server_port>>

\* self._dns_resolver.resolve(host, self._on_dns_resolved): one more callback
\* owed to h, or an exception out of the resolver (rz = "raise").
resolve(s, h, rz) ==
    IF rz = "raise" THEN [s EXCEPT !.raised = TRUE]
    ELSE [s EXCEPT !.dns[h] = @ + 1]

\* BaseMixin.on_recv_nego(): pass
BaseMixin_on_recv_nego(s, h, r) == s

\* on_recv_nego that queues the reply but leaves the stage where it was.
LocalMixin_on_recv_nego_nostage(s, h, r) ==
    IF closed(s, h) THEN destroy(s, h)
    ELSE IF r.kind = "err" /\ r.errno \in RecvRetryErrnos THEN s
    ELSE IF r.kind = "err" \/ r.data = <<>> THEN destroy(s, h)
    ELSE [s EXCEPT !.write_buf[h] = Append(@, gen_nego.data),
                   !.wbuf_size[h] = @ + gen_nego.l]

\* LocalMixin.on_recv_nego().  r is the outcome of recv: data, or an errno.
LocalMixin_on_recv_nego(s, h, r) ==
    IF closed(s, h) THEN destroy(s, h)
    ELSE IF r.kind = "err" /\ r.errno \in RecvRetryErrnos THEN s
    ELSE IF r.kind = "err" \/ r.data = <<>> THEN destroy(s, h)
    ELSE [s EXCEPT !.write_buf[h] = Append(@, gen_nego.data),
                   !.wbuf_size[h] = @ + gen_nego.l,
                   !.status[h] = STAGET_SOCKS5_NEGO]

\* The UDP_ASSOCIATE reply with the port packed little-endian ('<H').
LocalMixin_udp_associate_le(s, h) ==
    LET header == IF s.family[h] = "AF_INET6" THEN <<5, 0, 0, 4>>
                  ELSE <<5, 0, 0, 1>>
        sn == getsockname(s, h)
        data == header \o sn.addr \o <<sn.port % 256, sn.port \div 256>>
    IN  [s EXCEPT !.write_buf[h] = Append(@, data),
                  !.wbuf_size[h] = @ + Len(data)]

\* LocalMixin.on_recv_syn(), the UDP_ASSOCIATE branch (lines 276-288).
LocalMixin_udp_associate(s, h) ==
    LET header == IF s.family[h] = "AF_INET6" THEN <<5, 0, 0, 4>>
                  ELSE <<5, 0, 0, 1>>
        sn == getsockname(s, h)
        data == header \o sn.addr \o PackPort(sn.port)
    IN  [s EXCEPT !.write_buf[h] = Append(@, data),
                  !.wbuf_size[h] = @ + Len(data)]

\* LocalMixin.on_recv_syn(), from the parsed header on (lines 303-318).
\* The tunnel branch re-appending only what follows the header.
LocalMixin_connect_payloadonly(s, h, hr, rz) ==
    LET data == popped_chunk(s, h, BUF_SIZE)
        s1 == pop_from_rbuf(s, h, BUF_SIZE)
        s2 == [s1 EXCEPT !.status[h] = STAGE_SOCKS5_SYN,
                         !.write_buf[h] = Append(@, gen_ack.data),
                         !.wbuf_size[h] = @ + gen_ack.l]
    IN  IF hr.remote_addr = <<>> THEN [s2 EXCEPT !.raised = TRUE]
        ELSE IF exclusive_host(hr.remote_addr[1])
        THEN resolve([append_to_rbuf(s2, h, From(data, hr.header_length), TRUE)
                         EXCEPT !.peer_addr[h] = sshost], h, rz)
        ELSE resolve([s2 EXCEPT !.direct_conn[h] = TRUE,
                                !.peer_addr[h] =
                                    <<hr.remote_addr, hr.remote_port>>], h, rz)

LocalMixin_connect(s, h, hr, rz) ==
    LET data == popped_chunk(s, h, BUF_SIZE)
        s1 == pop_from_rbuf(s, h, BUF_SIZE)
        s2 == [s1 EXCEPT !.status[h] = STAGE_SOCKS5_SYN,
                         !.write_buf[h] = Append(@, gen_ack.data),
                         !.wbuf_size[h] = @ + gen_ack.l]
    IN  IF hr.remote_addr = <<>> THEN [s2 EXCEPT !.raised = TRUE]
        ELSE IF exclusive_host(hr.remote_addr[1])
        THEN resolve([append_to_rbuf(s2, h, data, TRUE)
                         EXCEPT !.peer_addr[h] = sshost], h, rz)
        ELSE resolve([s2 EXCEPT !.direct_conn[h] = TRUE,
                                !.peer_addr[h] =
                                    <<hr.remote_addr, hr.remote_port>>], h, rz)

\* on_recv_syn that treats every command other than UDP_ASSOCIATE as CONNECT.
LocalMixin_on_recv_syn_anycmd(s, h, r, rz) ==
    IF closed(s, h) THEN destroy(s, h)
    ELSE IF r.kind = "err" /\ r.errno \in RecvRetryErrnos THEN s
    ELSE IF r.kind = "err" \/ r.data = <<>> THEN destroy(s, h)
    ELSE IF Len(r.data) < 2 THEN [s EXCEPT !.raised = TRUE]
    ELSE LET cmd == r.data[2] IN
         IF cmd = CMD_UDPFWD THEN LocalMixin_udp_associate(s, h)
         ELSE LET s1 == append_to_rbuf(s, h, From(r.data, 3), FALSE)
                  s2 == [s1 EXCEPT !.read_buf[h] = merge_prefix(@, BUF_SIZE)]
              IN  IF s2.read_buf[h] = <<>> THEN s2
                  ELSE LET hr == parse_header(s2.read_buf[h][1]) IN
                       IF ~hr.ok THEN s2
                       ELSE LocalMixin_connect(s2, h, hr, rz)

\* LocalMixin.on_recv_syn()
LocalMixin_on_recv_syn(s, h, r, rz) ==
    IF closed(s, h) THEN destroy(s, h)
    ELSE IF r.kind = "err" /\ r.errno \in RecvRetryErrnos THEN s
    ELSE IF r.kind = "err" \/ r.data = <<>> THEN destroy(s, h)
    ELSE IF Len(r.data) < 2 THEN [s EXCEPT !.raised = TRUE]
    ELSE LET cmd == r.data[2] IN
         IF cmd = CMD_UDPFWD THEN LocalMixin_udp_associate(s, h)
         ELSE IF cmd # CMD_CONNECT THEN destroy(s, h)
         ELSE LET s1 == append_to_rbuf(s, h, From(r.data, 3), FALSE)
                  s2 == [s1 EXCEPT !.read_buf[h] = merge_prefix(@, BUF_SIZE)]
              IN  IF s2.read_buf[h] = <<>> THEN s2
                  ELSE LET hr == parse_header(s2.read_buf[h][1]) IN
                       IF ~hr.ok THEN s2
                       ELSE LocalMixin_connect(s2, h, hr, rz)

\* RemoteMixin.on_recv_syn popping a whole BUF_SIZE chunk for the header.
RemoteMixin_on_recv_syn_popall(s, h, r, rz) ==
    IF closed(s, h) THEN destroy(s, h)
    ELSE IF r.kind = "err" /\ r.errno \in RecvRetryErrnos THEN s
    ELSE IF r.kind = "err" \/ r.data = <<>> THEN destroy(s, h)
    ELSE LET s1 == append_to_rbuf(s, h, r.data, TRUE)
             s2 == [s1 EXCEPT !.read_buf[h] = merge_prefix(@, BUF_SIZE)]
         IN  IF s2.read_buf[h] = <<>> THEN s2
             ELSE LET hr == parse_header(s2.read_buf[h][1]) IN
                  IF ~hr.ok THEN s2
                  ELSE LET s3 == pop_from_rbuf(s2, h, BUF_SIZE)
                           s4 == [s3 EXCEPT
                                    !.status[h] = STAGE_SOCKS5_SYN,
                                    !.peer_addr[h] =
                                      <<hr.remote_addr, hr.remote_port>>]
                           s5 == resolve(s4, h, rz)
                       IN  IF s5.raised
                           THEN destroy([s5 EXCEPT !.raised = FALSE], h)
                           ELSE s5

\* RemoteMixin.on_recv_syn()
RemoteMixin_on_recv_syn(s, h, r, rz) ==
    IF closed(s, h) THEN destroy(s, h)
    ELSE IF r.kind = "err" /\ r.errno \in RecvRetryErrnos THEN s
    ELSE IF r.kind = "err" \/ r.data = <<>> THEN destroy(s, h)
    ELSE LET s1 == append_to_rbuf(s, h, r.data, TRUE)
             s2 == [s1 EXCEPT !.read_buf[h] = merge_prefix(@, BUF_SIZE)]
         IN  IF s2.read_buf[h] = <<>> THEN s2
             ELSE LET hr == parse_header(s2.read_buf[h][1]) IN
                  IF ~hr.ok THEN s2
                  ELSE LET s3 == pop_from_rbuf(s2, h, hr.header_length)
                           s4 == [s3 EXCEPT
                                    !.status[h] = STAGE_SOCKS5_SYN,
                                    !.peer_addr[h] =
                                      <<hr.remote_addr, hr.remote_port>>]
                           s5 == resolve(s4, h, rz)
                       IN  IF s5.raised
                           THEN destroy([s5 EXCEPT !.raised = FALSE], h)
                           ELSE s5

\* The method the handler's class binds to each name.
on_recv_nego(s, h, r) ==
    IF role = "local" THEN LocalMixin_on_recv_nego(s, h, r)
    ELSE BaseMixin_on_recv_nego(s, h, r)

on_recv_syn(s, h, r, rz) ==
    IF role = "local" THEN LocalMixin_on_recv_syn(s, h, r, rz)
    ELSE RemoteMixin_on_recv_syn(s, h, r, rz)

\* ------------------------------------------------------------- environment
\* A SOCKS5 destination header (domain "a", port 80) and one payload byte.
Header == <<ATYP_DOMAIN, 1, 97, 0, 80>>
Payload == <<9>>

\* What a client may send to a local handler: a negotiation request, a
\* CONNECT request with payload, the same request cut in two reads, a
\* UDP_ASSOCIATE request, a BIND request, and a read of a single byte.
LocalPayloads ==
    { <<5, 1, 0>>,
      <<5, CMD_CONNECT, 0>> \o Header \o Payload,
      <<5, CMD_CONNECT, 0, ATYP_DOMAIN, 1>>,
      <<97, 0, 80>> \o Payload,
      <<5, CMD_UDPFWD, 0, ATYP_IPV4, 0, 0, 0, 0, 0, 0>>,
      <<5, 2, 0, ATYP_IPV4, 0, 0, 0, 0, 0, 0>>,
      <<5>> }

\* What a local peer may send to a remote handler (tunnel-encoded): a header
\* alone, a header with payload, and the latter cut in two reads.
RemotePayloads ==
    { codec(Header), codec(Header \o Payload), codec(<<ATYP_DOMAIN, 1>>),
      codec(<<97, 0, 80>> \o Payload) }

Payloads == IF role = "local" THEN LocalPayloads ELSE RemotePayloads

\* The outcomes of self._sock.recv(BUF_SIZE) on handler h: data (b"" at end
\* of stream) or an errno; a closed socket only fails.
RecvOutcomes(h) ==
    IF sock[h] = "closed"
    THEN {[kind |-> "err", data |-> <<>>, errno |-> "EBADF"]}
    ELSE {[kind |-> "data", data |-> d, errno |-> ""] :
              d \in IF nreads < MaxReads THEN Payloads \cup {<<>>} ELSE {<<>>}}
         \cup {[kind |-> "err", data |-> <<>>, errno |-> e] :
                  e \in {"EAGAIN", "ETIMEDOUT", "ECONNRESET"}}

\* The results the resolver may hand to _on_dns_resolved, each with the
\* outcome of getaddrinfo/socket() and of connect() that follows an ip.
DnsOutcomes ==
    {[kind |-> k, ip |-> <<>>, gai |-> "ok", conn |-> "ok"] :
        k \in {"error", "empty", "noip"}}
    \cup {[kind |-> "ok", ip |-> <<10, 0, 0, 1>>, gai |-> "fail", conn |-> "ok"]}
    \cup {[kind |-> "ok", ip |-> <<10, 0, 0, 1>>, gai |-> "ok", conn |-> c] :
             c \in {"ok", "EINPROGRESS", "EWOULDBLOCK", "ECONNREFUSED"}}

\* Whether _on_dns_resolved with outcome res reaches a constructor call.
NeedsFresh(h, res) ==
    /\ res.kind = "ok"
    /\ res.gai = "ok"
    /\ res.conn \in {"ok"} \cup ERRNO_INPROGRESS \cup ERRNO_WOULDBLOCK
    /\ peer_addr[h] # NoAddr

Ran(op, h, r, s) ==
    last' = [op |-> op, h |-> h, r |-> r, raised |-> s.raised,
             destroyed |-> s.destroyed]

\* ------------------------------------------------------------------- state
\* Handler 1 as the acceptor leaves it: constructed around the accepted
\* socket (negative tag) and registered; no other handler exists yet.
InitHandlers ==
    /\ role \in {"local", "remote"}
    /\ created = {1}
    /\ status = [h \in Handlers |->
                    IF role = "local" THEN STAGE_INIT ELSE STAGET_SOCKS5_NEGO]
    /\ sock = [h \in Handlers |-> "open"]
    /\ family \in {[h \in Handlers |-> f] :
                      f \in IF role = "local" THEN {"AF_INET", "AF_INET6"}
                            ELSE {"AF_INET"}}
    /\ registered = [h \in Handlers |-> h = 1]
    /\ events = [h \in Handlers |-> IF h = 1 THEN READ_ERROR ELSE {}]
    /\ mux = [h \in Handlers |-> IF h = 1 THEN READ_ERROR ELSE {}]
    /\ read_buf = [h \in Handlers |-> <<>>]
    /\ rbuf_size = [h \in Handlers |-> 0]
    /\ write_buf = [h \in Handlers |-> <<>>]
    /\ wbuf_size = [h \in Handlers |-> 0]
    /\ op_hdl_ref = [h \in Handlers |-> None]
    /\ peer_addr = [h \in Handlers |-> NoAddr]
    /\ direct_conn = [h \in Handlers |-> FALSE]
    /\ tags = [h \in Handlers |-> HDL_NEGATIVE]
    /\ addr = [h \in Handlers |-> <<<<192, 168, 0, 9>>, 50000>>]
    /\ dns = [h \in Handlers |-> 0]
    /\ nreads = 0
    /\ fed = <<>>
    /\ last = [op |-> "init", h |-> None, r |-> [kind |-> "none"],
               raised |-> FALSE, destroyed |-> {}]

\* The classes as the source defines them: a local handler takes
\* LocalMixin._exclusive_host, a remote one inherits BaseMixin's.
Init ==
    /\ InitHandlers
    /\ exclusive_cls = IF role = "local" THEN "LocalMixin" ELSE "BaseMixin"

\* ----------------------------------------------------------------- actions
\* A read event dispatched to on_recv_nego of handler h.
RecvNego(h) ==
    /\ h \in created
    /\ \E r \in RecvOutcomes(h) :
          LET s == on_recv_nego(cur, h, r) IN
          /\ Commit(s)
          /\ Ran("on_recv_nego", h, r, s)
          /\ nreads' = IF r.data # <<>> THEN nreads + 1 ELSE nreads
    /\ UNCHANGED <<fixed, fed>>

\* A read event dispatched to on_recv_syn of handler h.
RecvSyn(h) ==
    /\ h \in created
    /\ \E r \in RecvOutcomes(h), rz \in {"ok", "raise"} :
          LET s == on_recv_syn(cur, h, r, rz) IN
          /\ rz = "raise" => s # on_recv_syn(cur, h, r, "ok")
          /\ Commit(s)
          /\ Ran("on_recv_syn", h, [r EXCEPT !.errno = IF rz = "raise"
                                                 THEN "resolve" ELSE @], s)
          /\ nreads' = IF r.data # <<>> THEN nreads + 1 ELSE nreads
    /\ UNCHANGED <<fixed, fed>>

\* The resolver delivers one owed callback to handler h.
DnsCallback(h) ==
    /\ h \in created
    /\ dns[h] > 0
    /\ \E res \in DnsOutcomes :
          /\ NeedsFresh(h, res) => created # Handlers
          /\ LET s0 == [cur EXCEPT !.dns[h] = @ - 1]
                 s == on_dns_resolved(s0, h, res, res)
             IN  Commit(s) /\ Ran("on_dns_resolved", h, res, s)
    /\ UNCHANGED <<fixed, fed, nreads>>

\* An error event from the multiplexer for handler h.
SockError(h) ==
    /\ h \in created
    /\ LET s == on_sock_error(cur, h) IN
       Commit(s) /\ Ran("on_sock_error", h, [kind |-> "none"], s)
    /\ UNCHANGED <<fixed, fed, nreads>>

\* destroy() called from outside (the idle reaper's entry point).
Destroy(h) ==
    /\ h \in created
    /\ LET s == destroy(cur, h) IN
       Commit(s) /\ Ran("destroy", h, [kind |-> "none"], s)
    /\ UNCHANGED <<fixed, fed, nreads>>

Next ==
    \E h \in Handlers :
        \/ RecvNego(h)
        \/ RecvSyn(h)
        \/ DnsCallback(h)
        \/ SockError(h)
        \/ Destroy(h)

Spec == Init /\ [][Next]_vars

\* register() called from outside on a constructed handler (the acceptor's
\* call, or any later one).
Register(h) ==
    /\ h \in created
    /\ LET s == register(cur, h) IN
       Commit(s) /\ Ran("register", h, [kind |-> "none"], s)
    /\ UNCHANGED <<fixed, fed, nreads>>

NextRegister == Next \/ \E h \in Handlers : Register(h)

SpecRegister == Init /\ [][NextRegister]_vars

\* A client's CONNECT whose header is cut after "ab" of the domain "abc", and
\* a full read of BUF_SIZE bytes that follows it: the rest of the header
\* (port 336, whose high byte reads as CMD_CONNECT) and payload.
BulkHead == <<5, CMD_CONNECT, 0, ATYP_DOMAIN, 3, 97, 98>>
BulkData == <<99, 1, 80>> \o [i \in 1 .. BUF_SIZE - 3 |-> 10 + (i % 100)]

\* A read event on a local handler whose recv returns one of the two.
BulkRead(h) ==
    /\ h \in created
    /\ role = "local"
    /\ sock[h] = "open"
    /\ nreads < MaxReads
    /\ \E d \in {BulkHead, BulkData} :
          LET r == [kind |-> "data", data |-> d, errno |-> ""]
              s == on_recv_syn(cur, h, r, "ok")
          IN  Commit(s) /\ Ran("on_recv_syn", h, r, s)
    /\ nreads' = nreads + 1
    /\ UNCHANGED <<fixed, fed>>

NextBulk == Next \/ \E h \in Handlers : BulkRead(h)

SpecBulk == Init /\ [][NextBulk]_vars

\* One SYN request reaching handler 1 in consecutive non-empty reads.
\* A client's request to a local handler and the tunnelled request to a
\* remote handler, each with and without payload behind the header.
SynRequests ==
    IF role = "local"
    THEN {<<5, CMD_CONNECT, 0>> \o Header, <<5, CMD_CONNECT, 0>> \o Header \o Payload}
    ELSE {codec(Header), codec(Header \o Payload)}

\* The reads that can follow the bytes already fed: every non-empty run of
\* the next bytes of a request that starts with those bytes.
NextFragments ==
    LET n == Len(Flatten(fed)) IN
    {SubSeq(q, n + 1, m) : <<q, m>> \in
        {qm \in SynRequests \X (1 .. 16) :
            /\ n < qm[2] /\ qm[2] <= Len(qm[1])
            /\ SubSeq(qm[1], 1, n) = Flatten(fed)}}

\* The client's negotiation, which a local handler reads before any request.
FragNego ==
    /\ role = "local"
    /\ status[1] = STAGE_INIT
    /\ fed = <<>>
    /\ LET r == [kind |-> "data", data |-> <<5, 1, 0>>, errno |-> ""]
           s == on_recv_nego(cur, 1, r)
       IN  Commit(s) /\ Ran("on_recv_nego", 1, r, s)
    /\ UNCHANGED <<fixed, fed, nreads>>

\* The next read of the request, dispatched to on_recv_syn of handler 1.
FragRead ==
    /\ status[1] # STAGE_INIT
    /\ sock[1] = "open"
    /\ \E d \in NextFragments :
          LET r == [kind |-> "data", data |-> d, errno |-> ""]
              s == on_recv_syn(cur, 1, r, "ok")
          IN  /\ Commit(s)
              /\ Ran("on_recv_syn", 1, r, s)
              /\ fed' = Append(fed, d)
    /\ UNCHANGED <<fixed, nreads>>

NextFrag == FragNego \/ FragRead

SpecFrag == Init /\ [][NextFrag]_vars

\* Either binding of the overridable _exclusive_host in the local role,
\* LocalMixin's (always tunnel) or the base one (never tunnel); the remote
\* role has the base one.
InitRouting ==
    /\ InitHandlers
    /\ exclusive_cls \in IF role = "local" THEN {"LocalMixin", "BaseMixin"}
                         ELSE {"BaseMixin"}

SpecRouting == InitRouting /\ [][Next]_vars

\* ------------------------------------------------------------------ claims
\* b is the peer that a's _create_peer_socket constructed: a positive-tag
\* handler whose relate(a) took effect (a fresh handler is never related).
PairedByCreation(a, b) ==
    /\ a \in created
    /\ b \in created
    /\ tags[b] = HDL_POSITIVE
    /\ op_hdl_ref[b] = a

\* The handler and the input of the entry point that ran last.
LastIs(op) == last.op = op

\* C1: for handlers A and B paired by peer-socket creation, when destroy()
\* has run on A then B is CLOSED, and when it has run on B then A is CLOSED.
\* destroy() is synchronous, so B is CLOSED when the call returns or nothing
\* in that call closes it.
C1_DestroyClosesPair ==
    \A a, b \in created :
        PairedByCreation(a, b) =>
            /\ a \in last.destroyed => status[b] = STAGE_CLOSED
            /\ b \in last.destroyed => status[a] = STAGE_CLOSED

\* C2: CLOSED is terminal: no step takes a CLOSED handler to another status.
C2_ClosedIsTerminal ==
    [][\A h \in created :
          status[h] = STAGE_CLOSED => status'[h] = STAGE_CLOSED]_vars

\* C3: the status of a handler that is not CLOSED never decreases, whichever
\* of on_recv_nego, on_recv_syn, _on_dns_resolved runs and in whatever order.
C3_StatusMonotonic ==
    [][\A h \in created :
          (status[h] # STAGE_CLOSED /\ status'[h] # STAGE_CLOSED)
              => status'[h] >= status[h]]_vars

\* C4: once a handler's paired reference is set, no step changes it; a later
\* relate() on it raises nothing and changes nothing.
C4_RelateOnce ==
    [][\A h \in created :
          op_hdl_ref[h] # None
              => op_hdl_ref'[h] = op_hdl_ref[h]]_vars

\* C4 witness: a peer b was constructed for a handler a that was related
\* already, so a.relate(b) ran with the reference set.
C4_Witness ==
    \E a, b \in created :
        /\ PairedByCreation(a, b)
        /\ op_hdl_ref[a] # None
        /\ op_hdl_ref[a] # b

\* C5: pairing is symmetric: if A's reference is B then B's reference is A.
C5_PairingSymmetric ==
    \A a \in created :
        op_hdl_ref[a] # None => op_hdl_ref[op_hdl_ref[a]] = a

\* C6: a PEER_CONNECTED handler has a paired handler whose socket exists and
\* which is registered with the multiplexer.
C6_PeerConnectedHasLivePeer ==
    \A h \in created :
        status[h] = STAGE_PEER_CONNECTED =>
            /\ op_hdl_ref[h] # None
            /\ sock[op_hdl_ref[h]] = "open"
            /\ mux[op_hdl_ref[h]] # {}

\* C7: each byte counter equals the sum of the lengths of its buffer's chunks.
C7_CountersMatchBuffers ==
    \A h \in created :
        /\ rbuf_size[h] = SumLen(read_buf[h])
        /\ wbuf_size[h] = SumLen(write_buf[h])

\* C7 witness: the remote on_recv_syn has decoded and appended two reads,
\* coalesced them, and popped the header; the payload stays buffered.
C7_Witness ==
    /\ role = "remote"
    /\ LastIs("on_recv_syn")
    /\ last.r.data = codec(<<97, 0, 80>> \o Payload)
    /\ status[last.h] = STAGE_SOCKS5_SYN
    /\ read_buf[last.h] = <<Payload>>
    /\ rbuf_size[last.h] = 1

\* C8: on a local handler that is not CLOSED, on_recv_nego with a non-empty
\* read appends exactly one negotiation reply and sets NEGOTIATING (whatever
\* the bytes are); with a zero-length read it queues nothing and destroys.
C8_NegotiationStep ==
    [][(role = "local" /\ last'.op = "on_recv_nego"
            /\ status[last'.h] # STAGE_CLOSED /\ last'.r.kind = "data")
        => LET h == last'.h IN
           IF last'.r.data # <<>>
           THEN /\ write_buf'[h] = Append(write_buf[h], <<5, 0>>)
                /\ wbuf_size'[h] = wbuf_size[h] + 2
                /\ status'[h] = STAGET_SOCKS5_NEGO
           ELSE /\ write_buf'[h] = write_buf[h]
                /\ h \in last'.destroyed
                /\ status'[h] = STAGE_CLOSED]_vars

\* C8 witness: a read of one byte that is no negotiation request has been
\* answered, and it is the second reply queued on that handler.
C8_Witness ==
    /\ role = "local"
    /\ LastIs("on_recv_nego")
    /\ last.r.kind = "data"
    /\ last.r.data = <<5>>
    /\ status[last.h] = STAGET_SOCKS5_NEGO
    /\ Len(write_buf[last.h]) >= 2

\* The reply to UDP_ASSOCIATE: version, success, reserved, the address type
\* of the socket's family, its bound address and its port, big-endian.
UdpReply(h) ==
    LET sn == getsockname(cur, h) IN
    <<5, 0, 0, IF family[h] = "AF_INET6" THEN ATYP_IPV6 ELSE ATYP_IPV4>>
        \o sn.addr \o <<sn.port \div 256, sn.port % 256>>

\* The last step ran the local on_recv_syn on a handler that was not CLOSED
\* and read at least the two bytes that hold the command.
LocalSynRead ==
    /\ role = "local"
    /\ last'.op = "on_recv_syn"
    /\ status[last'.h] # STAGE_CLOSED
    /\ last'.r.kind = "data"
    /\ Len(last'.r.data) >= 2

\* C9: a local on_recv_syn that reads command UDP_ASSOCIATE queues exactly one
\* reply carrying the bound address and port and changes nothing else: status,
\* read buffer, peer address, directConnect, pairing; no resolution, no peer.
C9_UdpAssociate ==
    [][(LocalSynRead /\ last'.r.data[2] = CMD_UDPFWD)
        => LET h == last'.h IN
           /\ write_buf' = [write_buf EXCEPT ![h] = Append(@, UdpReply(h))]
           /\ wbuf_size' = [wbuf_size EXCEPT ![h] = @ + Len(UdpReply(h))]
           /\ UNCHANGED <<status, read_buf, rbuf_size, peer_addr, direct_conn,
                          op_hdl_ref, dns, created, sock, mux>>
           /\ ~last'.raised]_vars

\* C9 witness: a UDP_ASSOCIATE request was answered on an IPv6 socket.
C9_Witness ==
    /\ role = "local"
    /\ LastIs("on_recv_syn")
    /\ last.r.kind = "data"
    /\ Len(last.r.data) >= 2
    /\ last.r.data[2] = CMD_UDPFWD
    /\ family[last.h] = "AF_INET6"
    /\ status[last.h] # STAGE_CLOSED
    /\ Len(write_buf[last.h]) >= 1
    /\ Len(write_buf[last.h][Len(write_buf[last.h])]) = 22

\* C10: a local on_recv_syn that reads a command that is neither CONNECT nor
\* UDP_ASSOCIATE destroys the handler, appends nothing to any write or read
\* buffer and starts no resolution.
C10_UnknownCommand ==
    [][(LocalSynRead /\ last'.r.data[2] \notin {CMD_CONNECT, CMD_UDPFWD})
        => LET h == last'.h IN
           /\ h \in last'.destroyed
           /\ status'[h] = STAGE_CLOSED
           /\ UNCHANGED <<write_buf, wbuf_size, read_buf, rbuf_size, dns,
                          created>>]_vars

\* C10 witness: a BIND request (command 2) destroyed a handler that held
\* buffered bytes and a queued reply.
C10_Witness ==
    /\ role = "local"
    /\ LastIs("on_recv_syn")
    /\ last.r.kind = "data"
    /\ Len(last.r.data) >= 2
    /\ last.r.data[2] = 2
    /\ status[last.h] = STAGE_CLOSED
    /\ last.h \in last.destroyed
    /\ write_buf[last.h] # <<>>

\* The bytes the local on_recv_syn of the last step parsed its header from:
\* what was buffered, then the read without its 3-byte SOCKS5 prefix.
LocalTotal == Flatten(read_buf[last'.h]) \o From(last'.r.data, 3)

\* The last step ran the local on_recv_syn with command CONNECT and the
\* buffered bytes parsed as a destination header.
LocalParsed ==
    /\ LocalSynRead
    /\ last'.r.data[2] = CMD_CONNECT
    /\ parse_header(LocalTotal).ok

RemoteSynRead ==
    /\ role = "remote"
    /\ last'.op = "on_recv_syn"
    /\ status[last'.h] # STAGE_CLOSED
    /\ last'.r.kind = "data"
    /\ last'.r.data # <<>>

\* The decoded bytes the remote on_recv_syn of the last step parsed: what was
\* buffered, then the decoded read.
RemoteTotal == Flatten(read_buf[last'.h]) \o codec(last'.r.data)

\* C12: when the remote on_recv_syn holds decoded bytes header ++ payload and
\* the header parses, the read buffer afterwards is exactly payload, in order,
\* and the counter has dropped by exactly header_length.
C12_RemoteHeaderConsumed ==
    [][(RemoteSynRead /\ parse_header(RemoteTotal).ok)
        => LET h == last'.h
               hl == parse_header(RemoteTotal).header_length
           IN  /\ Flatten(read_buf'[h]) = From(RemoteTotal, hl)
               /\ rbuf_size'[h] = rbuf_size[h] + Len(last'.r.data) - hl]_vars

\* A remote handler parsed a header that arrived with payload in one read.
C12_Witness ==
    /\ role = "remote"
    /\ last.op = "on_recv_syn"
    /\ last.r.data = codec(Header \o Payload)
    /\ status[last.h] = STAGE_SOCKS5_SYN
    /\ read_buf[last.h] = <<Payload>>
    /\ rbuf_size[last.h] = Len(Payload)

\* Handler 1 as it was before the first read of the request: constructed,
\* registered and, in the local role, past the negotiation.
FragStart ==
    LET s0 == register(construct(cur, 1, role, family[1], addr[1], tags[1]), 1)
    IN  IF role = "local"
        THEN on_recv_nego(s0, 1, [kind |-> "data", data |-> <<5, 1, 0>>,
                                  errno |-> ""])
        ELSE s0

\* The state on_recv_syn leaves when the bytes fed so far come in one read.
OneRead ==
    on_recv_syn(FragStart, 1,
                [kind |-> "data", data |-> Flatten(fed), errno |-> ""], "ok")

\* C13: however a valid SYN request is split into consecutive non-empty reads,
\* no read raises or destroys, and once the last one has arrived the parsed
\* destination, the status and the buffered bytes are those the whole request
\* gives in one read; in the local role and in the remote role.
C13_Fragmentation ==
    /\ last.op = "on_recv_syn" => (~last.raised /\ last.destroyed = {})
    /\ Flatten(fed) \in SynRequests
        => /\ status[1] = OneRead.status[1]
           /\ peer_addr[1] = OneRead.peer_addr[1]
           /\ Flatten(read_buf[1]) = Flatten(OneRead.read_buf[1])

\* C14: register() on a handler that is already registered or already CLOSED
\* raises and registers nothing; on any other handler it adds the socket to
\* the multiplexer with interest READ|ERROR.
C14_RegisterFailsFast ==
    [][last'.op = "register"
        => LET h == last'.h IN
           IF registered[h] \/ status[h] = STAGE_CLOSED
           THEN /\ last'.raised
                /\ mux'[h] = mux[h]
                /\ registered'[h] = registered[h]
           ELSE /\ ~last'.raised
                /\ mux'[h] = READ_ERROR
                /\ registered'[h]]_vars

\* C15: whenever _on_dns_resolved is invoked with an error, with an empty or
\* absent result, or with a result whose ip is empty, the handler is CLOSED
\* afterwards and no handler has been constructed.
C15_ResolutionFailure ==
    [][(last'.op = "on_dns_resolved"
            /\ last'.r.kind \in {"error", "empty", "noip"})
        => /\ status'[last'.h] = STAGE_CLOSED
           /\ last'.h \in last'.destroyed
           /\ created' = created]_vars

\* The last step ran the local tunnel path: a parsed CONNECT whose host the
\* exclusion predicate accepts.
LocalTunnelled ==
    /\ LocalParsed
    /\ parse_header(LocalTotal).remote_addr # <<>>
    /\ exclusive_host(parse_header(LocalTotal).remote_addr[1])

ConnectTried ==
    /\ last'.op = "on_dns_resolved"
    /\ last'.r.kind = "ok"
    /\ last'.r.gai = "ok"
    /\ peer_addr[last'.h] # NoAddr

\* C17: in _create_peer_socket a connect error of the in-progress or
\* would-block class constructs one peer handler, registered, paired with the
\* initiator (each refers to the other) and with the initiator's
\* directConnect; any other connect error destroys the initiator, constructs
\* no handler, sets no pairing and leaves the initiator CLOSED.
C17_ConnectOutcome ==
    [][(ConnectTried /\ last'.r.conn # "ok")
        => LET h == last'.h IN
           IF last'.r.conn \in ERRNO_INPROGRESS \cup ERRNO_WOULDBLOCK
           THEN \E p \in Handlers \ created :
                   /\ created' = created \cup {p}
                   /\ registered'[p] /\ mux'[p] = READ_ERROR
                   /\ op_hdl_ref'[p] = h
                   /\ op_hdl_ref'[h] = p
                   /\ direct_conn'[p] = direct_conn[h]
                   /\ tags'[p] = HDL_POSITIVE
           ELSE /\ h \in last'.destroyed
                /\ status'[h] = STAGE_CLOSED
                /\ created' = created
                /\ op_hdl_ref' = op_hdl_ref]_vars

\* The last step ran a read path (on_recv_nego of a local handler, which is
\* the one that reads, or on_recv_syn of either role) on a handler that is not
\* CLOSED, and recv raised an error.
ReadFailed ==
    /\ \/ last'.op = "on_recv_nego" /\ role = "local"
       \/ last'.op = "on_recv_syn"
    /\ status[last'.h] # STAGE_CLOSED
    /\ last'.r.kind = "err"

\* C18: a read error of the connection-reset class (reset, aborted, broken
\* pipe, timeout) destroys the handler; a would-block/again error destroys
\* nothing and leaves status, buffers and pairing unchanged.
C18_ReadErrorClasses ==
    [][ReadFailed
        => LET h == last'.h IN
           /\ last'.r.errno \in ERRNO_CONNRESET
                => (h \in last'.destroyed /\ status'[h] = STAGE_CLOSED)
           /\ last'.r.errno \in ERRNO_WOULDBLOCK
                => /\ last'.destroyed = {}
                   /\ UNCHANGED <<status, read_buf, rbuf_size, write_buf,
                                  wbuf_size, op_hdl_ref>>]_vars

\* The bytes of a buffer as they arrived: what the codec encoded, decoded
\* again (every byte that arrives in the model is below 128).
Plain(data) ==
    [i \in 1 .. Len(data) |-> IF data[i] > 127 THEN 255 - data[i] ELSE data[i]]

IsSuffix(a, b) ==
    /\ Len(a) <= Len(b)
    /\ a = SubSeq(b, Len(b) - Len(a) + 1, Len(b))

\* The bytes the on_recv_syn of the last step appended to the read buffer:
\* a CONNECT read without its prefix in the local role, the decoded read in
\* the remote role.
SynAppended ==
    IF role = "local" THEN From(last'.r.data, 3) ELSE codec(last'.r.data)

\* C19: the read buffer is first in, first out across on_recv_syn: after a
\* read is appended, the buffer holds, in arrival order, a tail of what it
\* held before followed by the new bytes; no byte that arrived later stands
\* ahead of one that arrived earlier, also with more than BUF_SIZE bytes
\* buffered when the local tunnel path pops and re-appends.
C19_Fifo ==
    [][((LocalSynRead /\ last'.r.data[2] = CMD_CONNECT) \/ RemoteSynRead)
        => \A after \in {Flatten(read_buf'[last'.h])},
              before \in {Flatten(read_buf[last'.h]) \o SynAppended} :
                 \A a \in {Plain(after)}, b \in {Plain(before)} :
                    IsSuffix(a, b)]_vars

\* C20: every _on_dns_resolved with a resolved ip on a handler in AWAITING_SYN
\* (STAGE_SOCKS5_SYN) ends with the handler CLOSED, or PEER_CONNECTED with a
\* registered peer that refers to it; a failure inside _create_peer_socket
\* does not leave it in DNS_RESOLVED with no peer.
C20_NotStranded ==
    [][(last'.op = "on_dns_resolved"
            /\ last'.r.kind = "ok"
            /\ status[last'.h] = STAGE_SOCKS5_SYN)
        => LET h == last'.h IN
           \/ status'[h] = STAGE_CLOSED
           \/ /\ status'[h] = STAGE_PEER_CONNECTED
              /\ \E p \in created' \ created :
                    /\ op_hdl_ref'[p] = h
                    /\ registered'[p]
                    /\ status'[p] = STAGE_PEER_CONNECTED]_vars

====
